---- MODULE Spec2Model ----
(***************************************************************************)
(* webwizard.py: the flag search parse_for_flag (crib -> three regular     *)
(* expressions -> findall -> decoded candidates) and the remote file       *)
(* listing Client.get_remote_files.                                        *)
(*                                                                         *)
(* A Python str is a sequence of code points (naturals); bytes are a       *)
(* sequence of 0..255.  Regular expressions are modelled by what re does   *)
(* with them: the pattern source is parsed into items and matched by       *)
(* backtracking in re's priority order.                                    *)
(***************************************************************************)
EXTENDS Integers, Sequences, FiniteSets, TLC

VARIABLES crib, text, pc, possible_flags, raised, stdout,
          link, page, all_files

vars == <<crib, text, pc, possible_flags, raised, stdout, link, page, all_files>>

flagVars == <<crib, text, pc, possible_flags, raised, stdout>>
clientVars == <<link, page, all_files>>

(***************************************************************************)
(* Characters that the source names.                                       *)
(***************************************************************************)
LBRACE == 123
RBRACE == 125
NEWLINE == 10
\* the bound of an open repetition (* or +): more than any text is long
MAXREPEAT == 2147483647

Min(a, b) == IF a < b THEN a ELSE b

\* all sequences over S of length 0..n
RECURSIVE SeqsUpTo(_, _)
SeqsUpTo(S, n) ==
  IF n = 0 THEN {<<>>}
  ELSE LET shorter == SeqsUpTo(S, n - 1)
       IN shorter \cup {Append(s, c) : s \in {t \in shorter : Len(t) = n - 1}, c \in S}

RECURSIVE Concat(_)
Concat(ss) == IF ss = <<>> THEN <<>> ELSE Head(ss) \o Concat(Tail(ss))

\* Python's x in y for strings: needle occurs in hay
Contains(hay, needle) ==
  \E i \in 1..(Len(hay) - Len(needle) + 1) :
    SubSeq(hay, i, i + Len(needle) - 1) = needle

(***************************************************************************)
(* str.strip("{"): drop the '{' characters at both ends.                   *)
(***************************************************************************)
RECURSIVE LStrip(_, _)
LStrip(s, ch) ==
  IF s # <<>> /\ Head(s) = ch THEN LStrip(Tail(s), ch) ELSE s

RECURSIVE RStrip(_, _)
RStrip(s, ch) ==
  IF s # <<>> /\ s[Len(s)] = ch THEN RStrip(SubSeq(s, 1, Len(s) - 1), ch) ELSE s

StripLeadingOnly(s, ch) == LStrip(s, ch)

Strip(s, ch) == RStrip(LStrip(s, ch), ch)

(***************************************************************************)
(* codecs.encode(s, "rot-13") = codecs.decode(s, "rot-13"): the 26 letters *)
(* of each case are rotated by 13, everything else is kept.                *)
(***************************************************************************)
Rot13Char(c) ==
  IF c \in 65..90 THEN 65 + ((c - 65 + 13) % 26)
  ELSE IF c \in 97..122 THEN 97 + ((c - 97 + 13) % 26)
  ELSE c

Rot13(s) == [i \in 1..Len(s) |-> Rot13Char(s[i])]

(***************************************************************************)
(* The pattern source of the plaintext pattern: every crib character       *)
(* followed by ".{0,2}", then "\{.*?\}".                                   *)
(***************************************************************************)
GapSourceOne == <<46, 123, 48, 44, 49, 125>>       \* .{0,1}
GapSource == <<46, 123, 48, 44, 50, 125>>          \* .{0,2}
BodySource == <<92, 123, 46, 42, 63, 92, 125>>     \* \{.*?\}

RECURSIVE CribSource(_)
CribSource(c) ==
  IF c = <<>> THEN <<>> ELSE <<Head(c)>> \o GapSource \o CribSource(Tail(c))

RegexString(c) == CribSource(c) \o BodySource

(***************************************************************************)
(* re.compile: the pattern source is parsed into a sequence of items.  An  *)
(* item is a one-character matcher ("in": a set of code points, "any": the *)
(* dot, which re compiles without DOTALL and so excludes the newline) with *)
(* its repetition lo..hi, greedy or lazy, or the opening or closing of a   *)
(* capture group.  Syntax that no pattern of this program's inputs uses    *)
(* (alternation, anchors, (?...), negated classes, repeated groups, letter *)
(* escapes other than \s) is reported as "unmodelled".                     *)
(***************************************************************************)
Item(t, cs, g) == [t |-> t, cs |-> cs, g |-> g, lo |-> 1, hi |-> 1, lazy |-> FALSE, q |-> FALSE]

\* the characters \s matches in a str pattern (str.isspace)
Whitespace == (9..13) \cup (28..32) \cup {133, 160, 5760} \cup (8192..8202)
              \cup {8232, 8233, 8239, 8287, 12288}

IsDigit(c) == c \in 48..57
IsAlnum(c) == c \in (48..57) \cup (65..90) \cup (97..122)

ParseError(msg) == [ok |-> FALSE, err |-> msg, items |-> <<>>, ngroups |-> 0]
ParseOk(items, ng) == [ok |-> TRUE, err |-> "", items |-> items, ngroups |-> ng]

\* first index >= j of src that holds no digit
RECURSIVE DigitsEnd(_, _)
DigitsEnd(src, j) ==
  IF j <= Len(src) /\ IsDigit(src[j]) THEN DigitsEnd(src, j + 1) ELSE j

\* int() of the digits src[a..b]
RECURSIVE NumVal(_, _, _)
NumVal(src, a, b) ==
  IF b < a THEN 0 ELSE NumVal(src, a, b - 1) * 10 + (src[b] - 48)

\* "{" at index i: [q |-> TRUE, lo, hi, next] when it opens a repetition
\* {lo,hi}, [q |-> FALSE] when it is a literal brace
BraceRepeat(src, i) ==
  LET a == i + 1
      b == DigitsEnd(src, a)
      comma == b <= Len(src) /\ src[b] = 44
      c == IF comma THEN b + 1 ELSE b
      d == IF comma THEN DigitsEnd(src, c) ELSE b
      lo == IF b > a THEN NumVal(src, a, b - 1) ELSE 0
      hi == IF comma
            THEN (IF d > c THEN NumVal(src, c, d - 1) ELSE MAXREPEAT)
            ELSE (IF b > a THEN lo ELSE MAXREPEAT)
  IN IF i < Len(src) /\ src[i + 1] = RBRACE THEN [q |-> FALSE, lo |-> 0, hi |-> 0, next |-> i + 1]
     ELSE IF d <= Len(src) /\ src[d] = RBRACE THEN [q |-> TRUE, lo |-> lo, hi |-> hi, next |-> d + 1]
     ELSE [q |-> FALSE, lo |-> 0, hi |-> 0, next |-> i + 1]

\* the members of a character class whose "[" is just before index j
RECURSIVE ClassParse(_, _, _)
ClassParse(src, j, set) ==
  IF j > Len(src) THEN [ok |-> FALSE, err |-> "unterminated character set", set |-> {}, next |-> j]
  ELSE IF src[j] = 93 /\ set # {} THEN [ok |-> TRUE, err |-> "", set |-> set, next |-> j + 1]
  ELSE LET esc == src[j] = 92
           k == IF esc THEN j + 1 ELSE j
       IN IF k > Len(src) THEN [ok |-> FALSE, err |-> "unterminated character set", set |-> {}, next |-> k]
          ELSE IF esc /\ IsAlnum(src[k]) THEN [ok |-> FALSE, err |-> "unmodelled", set |-> {}, next |-> k]
          ELSE IF k + 1 <= Len(src) /\ src[k + 1] = 45
          THEN \* a range c1-c2, or a final "-"
               IF k + 2 > Len(src) THEN [ok |-> FALSE, err |-> "unterminated character set", set |-> {}, next |-> k]
               ELSE IF src[k + 2] = 93 THEN [ok |-> TRUE, err |-> "", set |-> set \cup {src[k], 45}, next |-> k + 3]
               ELSE IF src[k + 2] = 92 THEN [ok |-> FALSE, err |-> "unmodelled", set |-> {}, next |-> k]
               ELSE IF src[k + 2] < src[k] THEN [ok |-> FALSE, err |-> "bad character range", set |-> {}, next |-> k]
               ELSE ClassParse(src, k + 3, set \cup (src[k]..src[k + 2]))
          ELSE ClassParse(src, k + 1, set \cup {src[k]})

RECURSIVE Parse(_, _, _, _, _)

\* a repetition lo..hi whose text ends just before index next
Repeat(src, next, items, stack, ng, lo, hi) ==
  LET n == Len(items)
      lazy == next <= Len(src) /\ src[next] = 63
  IN IF n = 0 \/ items[n].t = "open" THEN ParseError("nothing to repeat")
     ELSE IF items[n].q THEN ParseError("multiple repeat")
     ELSE IF items[n].t = "close" THEN ParseError("unmodelled")
     ELSE IF next <= Len(src) /\ src[next] = 43 THEN ParseError("unmodelled")
     ELSE IF hi < lo THEN ParseError("min repeat greater than max repeat")
     ELSE Parse(src, IF lazy THEN next + 1 ELSE next,
                [items EXCEPT ![n] = [@ EXCEPT !.lo = lo, !.hi = hi, !.lazy = lazy, !.q = TRUE]],
                stack, ng)

Parse(src, i, items, stack, ng) ==
  IF i > Len(src)
  THEN IF stack # <<>> THEN ParseError("missing ), unterminated subpattern")
       ELSE ParseOk(items, ng)
  ELSE LET ch == src[i] IN
    CASE ch = 92 ->
           IF i = Len(src) THEN ParseError("bad escape (end of pattern)")
           ELSE IF src[i + 1] = 115
                THEN Parse(src, i + 2, Append(items, Item("in", Whitespace, 0)), stack, ng)
           ELSE IF IsAlnum(src[i + 1]) THEN ParseError("unmodelled")
           ELSE Parse(src, i + 2, Append(items, Item("in", {src[i + 1]}, 0)), stack, ng)
      [] ch = 46 -> Parse(src, i + 1, Append(items, Item("any", {}, 0)), stack, ng)
      [] ch = 40 ->
           IF i < Len(src) /\ src[i + 1] = 63 THEN ParseError("unmodelled")
           ELSE Parse(src, i + 1, Append(items, Item("open", {}, ng + 1)),
                      <<ng + 1>> \o stack, ng + 1)
      [] ch = 41 ->
           IF stack = <<>> THEN ParseError("unbalanced parenthesis")
           ELSE Parse(src, i + 1, Append(items, Item("close", {}, Head(stack))),
                      Tail(stack), ng)
      [] ch = 91 ->
           IF i < Len(src) /\ src[i + 1] = 94 THEN ParseError("unmodelled")
           ELSE LET cl == ClassParse(src, i + 1, {})
                IN IF cl.ok
                   THEN Parse(src, cl.next, Append(items, Item("in", cl.set, 0)), stack, ng)
                   ELSE ParseError(cl.err)
      [] ch = 42 -> Repeat(src, i + 1, items, stack, ng, 0, MAXREPEAT)
      [] ch = 43 -> Repeat(src, i + 1, items, stack, ng, 1, MAXREPEAT)
      [] ch = 63 -> Repeat(src, i + 1, items, stack, ng, 0, 1)
      [] ch = LBRACE ->
           LET br == BraceRepeat(src, i)
           IN IF br.q THEN Repeat(src, br.next, items, stack, ng, br.lo, br.hi)
              ELSE Parse(src, i + 1, Append(items, Item("in", {LBRACE}, 0)), stack, ng)
      [] ch \in {124, 94, 36} -> ParseError("unmodelled")
      [] OTHER -> Parse(src, i + 1, Append(items, Item("in", {ch}, 0)), stack, ng)

Compile(src) == Parse(src, 1, <<>>, <<>>, 0)

(***************************************************************************)
(* Matching.  MatchAt tries items k.. at position pos the way re's         *)
(* backtracking does: a greedy repetition tries its largest count first, a *)
(* lazy one its smallest, and the first alternative that lets the rest of  *)
(* the pattern match is the match.  caps[g] is the span of group g.        *)
(***************************************************************************)
Accepts(item, c) ==
  IF item.t = "any" THEN c # NEWLINE ELSE c \in item.cs

NoMatch == [ok |-> FALSE, end |-> 0, caps |-> <<>>]

\* how many of the characters from pos on the item accepts, at most limit
RECURSIVE RunLen(_, _, _, _)
RunLen(item, txt, pos, limit) ==
  IF limit = 0 \/ pos > Len(txt) \/ ~Accepts(item, txt[pos]) THEN 0
  ELSE 1 + RunLen(item, txt, pos + 1, limit - 1)

RECURSIVE MatchAt(_, _, _, _, _)
RECURSIVE TryCounts(_, _, _, _, _, _, _, _)

\* the counts n, n + step, ... up to last, in this order
TryCounts(items, txt, k, pos, caps, n, last, step) ==
  LET r == MatchAt(items, txt, k + 1, pos + n, caps)
  IN IF r.ok THEN r
     ELSE IF n = last THEN NoMatch
     ELSE TryCounts(items, txt, k, pos, caps, n + step, last, step)

MatchAt(items, txt, k, pos, caps) ==
  IF k > Len(items) THEN [ok |-> TRUE, end |-> pos, caps |-> caps]
  ELSE LET it == items[k] IN
    CASE it.t = "open" ->
           MatchAt(items, txt, k + 1, pos, [caps EXCEPT ![it.g] = <<pos, pos>>])
      [] it.t = "close" ->
           MatchAt(items, txt, k + 1, pos, [caps EXCEPT ![it.g] = <<@[1], pos>>])
      [] OTHER ->
           LET run == RunLen(it, txt, pos, it.hi)
           IN IF run < it.lo THEN NoMatch
              ELSE IF it.lazy THEN TryCounts(items, txt, k, pos, caps, it.lo, run, 1)
              ELSE TryCounts(items, txt, k, pos, caps, run, it.lo, -1)

\* pattern.search from position pos: the leftmost start that matches
RECURSIVE Search(_, _, _)
Search(pat, txt, pos) ==
  IF pos > Len(txt) + 1 THEN [ok |-> FALSE, start |-> 0, end |-> 0, caps |-> <<>>]
  ELSE LET r == MatchAt(pat.items, txt, 1, pos, [g \in 1..pat.ngroups |-> <<0, 0>>])
       IN IF r.ok THEN [ok |-> TRUE, start |-> pos, end |-> r.end, caps |-> r.caps]
          ELSE Search(pat, txt, pos + 1)

\* the spans of the non-overlapping matches, left to right
RECURSIVE FindSpans(_, _, _)
FindSpans(pat, txt, pos) ==
  LET m == Search(pat, txt, pos)
  IN IF ~m.ok THEN <<>>
     ELSE <<m>> \o FindSpans(pat, txt, IF m.end > m.start THEN m.end ELSE m.end + 1)

Slice(txt, a, b) == SubSeq(txt, a, b - 1)

\* what findall lists for one match: the matched text when the pattern has
\* no group, the text of the group when it has one, and a tuple of the
\* groups' texts when it has several
FindallEntry(pat, txt, m) ==
  IF pat.ngroups = 0 THEN [tuple |-> FALSE, s |-> Slice(txt, m.start, m.end), parts |-> <<>>]
  ELSE IF pat.ngroups = 1
       THEN [tuple |-> FALSE, s |-> Slice(txt, m.caps[1][1], m.caps[1][2]), parts |-> <<>>]
  ELSE [tuple |-> TRUE, s |-> <<>>,
        parts |-> [g \in 1..pat.ngroups |-> Slice(txt, m.caps[g][1], m.caps[g][2])]]

Findall(pat, txt) ==
  LET spans == FindSpans(pat, txt, 1)
  IN [i \in 1..Len(spans) |-> FindallEntry(pat, txt, spans[i])]

(***************************************************************************)
(* bytes(s, "utf-8") and bytes.decode() (UTF-8, strict).                   *)
(***************************************************************************)
Utf8EncodeChar(c) ==
  IF c < 128 THEN <<c>>
  ELSE IF c < 2048 THEN <<192 + (c \div 64), 128 + (c % 64)>>
  ELSE IF c < 65536 THEN <<224 + (c \div 4096), 128 + ((c \div 64) % 64), 128 + (c % 64)>>
  ELSE <<240 + (c \div 262144), 128 + ((c \div 4096) % 64),
         128 + ((c \div 64) % 64), 128 + (c % 64)>>

RECURSIVE Utf8Encode(_)
Utf8Encode(s) ==
  IF s = <<>> THEN <<>> ELSE Utf8EncodeChar(Head(s)) \o Utf8Encode(Tail(s))

IsCont(b) == b \in 128..191

\* [ok, s]: the decoded string, or ok = FALSE for UnicodeDecodeError
RECURSIVE Utf8Decode(_, _, _)
Utf8Decode(bs, i, out) ==
  IF i > Len(bs) THEN [ok |-> TRUE, s |-> out]
  ELSE LET b == bs[i]
           has(n) == i + n <= Len(bs)
           bad == [ok |-> FALSE, s |-> <<>>]
       IN IF b < 128 THEN Utf8Decode(bs, i + 1, Append(out, b))
          ELSE IF b \in 194..223
          THEN IF has(1) /\ IsCont(bs[i + 1])
               THEN Utf8Decode(bs, i + 2, Append(out, (b - 192) * 64 + (bs[i + 1] - 128)))
               ELSE bad
          ELSE IF b \in 224..239
          THEN IF has(2) /\ IsCont(bs[i + 1]) /\ IsCont(bs[i + 2])
                  /\ (b = 224 => bs[i + 1] >= 160) /\ (b = 237 => bs[i + 1] <= 159)
               THEN Utf8Decode(bs, i + 3,
                      Append(out, (b - 224) * 4096 + (bs[i + 1] - 128) * 64 + (bs[i + 2] - 128)))
               ELSE bad
          ELSE IF b \in 240..244
          THEN IF has(3) /\ IsCont(bs[i + 1]) /\ IsCont(bs[i + 2]) /\ IsCont(bs[i + 3])
                  /\ (b = 240 => bs[i + 1] >= 144) /\ (b = 244 => bs[i + 1] <= 143)
               THEN Utf8Decode(bs, i + 4,
                      Append(out, (b - 240) * 262144 + (bs[i + 1] - 128) * 4096
                                  + (bs[i + 2] - 128) * 64 + (bs[i + 3] - 128)))
               ELSE bad
          ELSE bad

(***************************************************************************)
(* base64.b64encode and base64.b64decode (binascii.a2b_base64, not strict: *)
(* bytes outside the alphabet are skipped, "=" ends the data once it       *)
(* completes a quad, and data that ends inside a quad is an error).        *)
(***************************************************************************)
B64Char(v) ==
  IF v < 26 THEN 65 + v
  ELSE IF v < 52 THEN 97 + (v - 26)
  ELSE IF v < 62 THEN 48 + (v - 52)
  ELSE IF v = 62 THEN 43 ELSE 47

B64Index(c) ==
  IF c \in 65..90 THEN c - 65
  ELSE IF c \in 97..122 THEN c - 97 + 26
  ELSE IF c \in 48..57 THEN c - 48 + 52
  ELSE IF c = 43 THEN 62
  ELSE IF c = 47 THEN 63
  ELSE 64

PAD == 61

RECURSIVE B64Encode(_)
B64Encode(bs) ==
  IF bs = <<>> THEN <<>>
  ELSE IF Len(bs) = 1
  THEN <<B64Char(bs[1] \div 4), B64Char((bs[1] % 4) * 16), PAD, PAD>>
  ELSE IF Len(bs) = 2
  THEN <<B64Char(bs[1] \div 4), B64Char((bs[1] % 4) * 16 + bs[2] \div 16),
         B64Char((bs[2] % 16) * 4), PAD>>
  ELSE <<B64Char(bs[1] \div 4), B64Char((bs[1] % 4) * 16 + bs[2] \div 16),
         B64Char((bs[2] % 16) * 4 + bs[3] \div 64), B64Char(bs[3] % 64)>>
       \o B64Encode(SubSeq(bs, 4, Len(bs)))

\* [ok, bytes]: ok = FALSE for binascii.Error
RECURSIVE A2B(_, _, _, _, _, _)
A2B(data, i, quad, pads, left, out) ==
  IF i > Len(data)
  THEN IF quad # 0 THEN [ok |-> FALSE, bytes |-> <<>>] ELSE [ok |-> TRUE, bytes |-> out]
  ELSE LET c == data[i] IN
    IF c = PAD
    THEN IF quad >= 2 /\ quad + pads + 1 >= 4 THEN [ok |-> TRUE, bytes |-> out]
         ELSE A2B(data, i + 1, quad, IF quad >= 2 THEN pads + 1 ELSE pads, left, out)
    ELSE LET v == B64Index(c) IN
      IF v >= 64 THEN A2B(data, i + 1, quad, pads, left, out)
      ELSE CASE quad = 0 -> A2B(data, i + 1, 1, 0, v, out)
             [] quad = 1 -> A2B(data, i + 1, 2, 0, v % 16, Append(out, left * 4 + v \div 16))
             [] quad = 2 -> A2B(data, i + 1, 3, 0, v % 4, Append(out, left * 16 + v \div 4))
             [] quad = 3 -> A2B(data, i + 1, 0, 0, 0, Append(out, left * 64 + v))

B64Decode(data) == A2B(data, 1, 0, 0, 0, <<>>)

(***************************************************************************)
(* "{}".format(x) of a findall entry: a string as it is, a tuple of        *)
(* strings as its repr.                                                    *)
(***************************************************************************)
RECURSIVE ReprEscape(_, _)
ReprEscape(s, quote) ==
  IF s = <<>> THEN <<>>
  ELSE LET c == Head(s)
           e == IF c = 92 THEN <<92, 92>>
                ELSE IF c = quote THEN <<92, c>>
                ELSE IF c = NEWLINE THEN <<92, 110>>
                ELSE IF c = 13 THEN <<92, 114>>
                ELSE IF c = 9 THEN <<92, 116>>
                ELSE <<c>>
       IN e \o ReprEscape(Tail(s), quote)

ReprStr(s) ==
  LET quote == IF (\E i \in 1..Len(s) : s[i] = 39) /\ ~(\E i \in 1..Len(s) : s[i] = 34)
               THEN 34 ELSE 39
  IN <<quote>> \o ReprEscape(s, quote) \o <<quote>>

RECURSIVE ReprParts(_)
ReprParts(parts) ==
  IF parts = <<>> THEN <<>>
  ELSE ReprStr(Head(parts)) \o (IF Len(parts) = 1 THEN <<>> ELSE <<44, 32>>)
       \o ReprParts(Tail(parts))

Format(e) == IF e.tuple THEN <<40>> \o ReprParts(e.parts) \o <<41>> ELSE e.s

(***************************************************************************)
(* parse_for_flag(crib, text).  A candidate "plaintext flag: v" is the     *)
(* record [kind |-> "plaintext", value |-> v], and so for the other two    *)
(* kinds.  The result is [raised, flags]: the exception that ends the call *)
(* ("none" when it returns) and the list it returns.                       *)
(***************************************************************************)
\* [+\\A-Za-z0-9]+[=]{0,2}\s  (the text of the f-string after its escapes)
Base64Tail == <<91, 43, 92, 92, 65, 45, 90, 97, 45, 122, 48, 45, 57, 93, 43,
                91, 61, 93, 123, 48, 44, 50, 125, 92, 115>>

Base64Source(c) ==
  LET base64_first_three == B64Encode(Utf8Encode(c))
  IN SubSeq(base64_first_three, 1, Min(3, Len(base64_first_three))) \o Base64Tail

Candidate(kind, value) == [kind |-> kind, value |-> value]

Raise(kind) == [raised |-> kind, flags |-> <<>>]

CompileError(pat) == IF pat.err = "unmodelled" THEN "unmodelled" ELSE "re.error"

\* base64.b64decode(bytes(x, "utf-8")).decode() of one findall entry:
\* [err, s], err the exception it raises or "none"
Base64Value(e) ==
  IF e.tuple THEN [err |-> "TypeError", s |-> <<>>]
  ELSE LET raw == B64Decode(Utf8Encode(e.s))
       IN IF ~raw.ok THEN [err |-> "binascii.Error", s |-> <<>>]
          ELSE LET str == Utf8Decode(raw.bytes, 1, <<>>)
               IN IF ~str.ok THEN [err |-> "UnicodeDecodeError", s |-> <<>>]
                  ELSE [err |-> "none", s |-> str.s]

\* codecs.decode(x, "rot-13") of one findall entry
Rot13Value(e) ==
  IF e.tuple THEN [err |-> "TypeError", s |-> <<>>]
  ELSE [err |-> "none", s |-> Rot13(e.s)]

\* the exception of the first element that raises one, "none" without
FirstError(vals) ==
  IF \E i \in 1..Len(vals) : vals[i].err # "none"
  THEN vals[CHOOSE i \in 1..Len(vals) :
              /\ vals[i].err # "none"
              /\ \A j \in 1..(i - 1) : vals[j].err = "none"].err
  ELSE "none"

\* lines 87-107: the list made of the three findall results, or the
\* exception of the first element whose decoding raises
PossibleFlags(plaintext_flags, rot13_vals, base64_vals) ==
  IF FirstError(rot13_vals) # "none" THEN Raise(FirstError(rot13_vals))
  ELSE IF FirstError(base64_vals) # "none" THEN Raise(FirstError(base64_vals))
  ELSE [raised |-> "none",
        flags |->
          [i \in 1..Len(plaintext_flags) |->
             Candidate("plaintext", Format(plaintext_flags[i]))]
          \o [i \in 1..Len(rot13_vals) |-> Candidate("rot13", rot13_vals[i].s)]
          \o [i \in 1..Len(base64_vals) |-> Candidate("base64", base64_vals[i].s)]]

Rot13Values(rot13_flags) ==
  [i \in 1..Len(rot13_flags) |-> Rot13Value(rot13_flags[i])]

Base64Values(base64_flags) ==
  [i \in 1..Len(base64_flags) |-> Base64Value(base64_flags[i])]

\* lines 75-85: the three compilations, the first failure of which ends
\* the call, then the three findall
FindFlags(plaintext_pattern, rot13_pattern, base64_pattern, text_in) ==
  IF ~plaintext_pattern.ok THEN Raise(CompileError(plaintext_pattern))
  ELSE IF ~rot13_pattern.ok THEN Raise(CompileError(rot13_pattern))
  ELSE IF ~base64_pattern.ok THEN Raise(CompileError(base64_pattern))
  ELSE PossibleFlags(Findall(plaintext_pattern, text_in),
                     Rot13Values(Findall(rot13_pattern, text_in)),
                     Base64Values(Findall(base64_pattern, text_in)))

\* lines 67-80: the three patterns of the stripped crib
FlagsOfCrib(c, text_in) ==
  FindFlags(Compile(RegexString(c)),
            Compile(Rot13(RegexString(c))),
            Compile(Base64Source(c)),
            text_in)

ParseForFlag(crib_in, text_in) == FlagsOfCrib(Strip(crib_in, LBRACE), text_in)

(***************************************************************************)
(* The call of parse_for_flag as a step: the list it returns (nothing when *)
(* it raises) and the candidates it prints before returning.               *)
(***************************************************************************)
CallParseForFlag ==
  /\ pc = "start"
  /\ \E r \in {ParseForFlag(crib, text)} :
        /\ raised' = r.raised
        /\ possible_flags' = r.flags
        /\ stdout' = stdout \o r.flags
        /\ pc' = IF r.raised = "none" THEN "returned" ELSE "raised"
  /\ UNCHANGED <<crib, text>>
  /\ UNCHANGED clientVars

NextFlag == CallParseForFlag

NoClient == link = <<>> /\ page = <<>> /\ all_files = <<>>

InitCall ==
  /\ pc = "start"
  /\ possible_flags = <<>>
  /\ raised = "none"
  /\ stdout = <<>>
  /\ NoClient

(***************************************************************************)
(* Inputs: every crib over "A", "{", "(", ")" and every text over "A",     *)
(* "N" (the ROT13 of "A"), "{", "}" and the space, up to a length.         *)
(***************************************************************************)
MaxCribLen == 3
MaxTextLen == 4
CribAlphabet == {65, 123, 40, 41}
TextAlphabet == {65, 78, 123, 125, 32}

Init ==
  /\ crib \in SeqsUpTo(CribAlphabet, MaxCribLen)
  /\ text \in SeqsUpTo(TextAlphabet, MaxTextLen)
  /\ InitCall

Spec == Init /\ [][NextFlag]_vars

(***************************************************************************)
(* Client.get_remote_files(link).  The parsed page is the sequence of its  *)
(* tags in document order; a tag is [name, attr, value]: its name and the  *)
(* one attribute it carries (attrs.get of any other attribute is None).    *)
(* A URL is a sequence of one-character strings.                           *)
(***************************************************************************)
Http == <<"h", "t", "t", "p">>

\* tag.attrs.get(attr): the value, or <<>> for None (both are false in "if")
AttrsGet(tag, attr) == IF tag.attr = attr THEN tag.value ELSE <<>>

\* one of the three loops: over the tags called name, collecting attr
RECURSIVE CollectNoCheck(_, _, _, _, _)
CollectNoCheck(tags, name, attr, lnk, files) ==
  IF tags = <<>> THEN files
  ELSE LET tag == Head(tags)
           file_path == AttrsGet(tag, attr)
       IN IF tag.name = name /\ file_path # <<>> /\ ~Contains(file_path, Http)
          THEN CollectNoCheck(Tail(tags), name, attr, lnk, Append(files, lnk \o file_path))
          ELSE CollectNoCheck(Tail(tags), name, attr, lnk, files)

RECURSIVE Collect(_, _, _, _, _)
Collect(tags, name, attr, lnk, files) ==
  IF tags = <<>> THEN files
  ELSE LET tag == Head(tags)
           file_path == AttrsGet(tag, attr)
       IN IF tag.name = name /\ file_path # <<>> /\ ~Contains(file_path, Http)
             /\ ~(\E i \in 1..Len(files) : files[i] = lnk \o file_path)
          THEN Collect(Tail(tags), name, attr, lnk, Append(files, lnk \o file_path))
          ELSE Collect(Tail(tags), name, attr, lnk, files)

GetRemoteFiles(lnk, tags) ==
  LET css_files == Collect(tags, "link", "href", lnk, <<>>)
      image_files == Collect(tags, "img", "src", lnk, <<>>)
      script_files == Collect(tags, "script", "src", lnk, <<>>)
  IN css_files \o image_files \o script_files

CallGetRemoteFiles ==
  /\ pc = "start"
  /\ all_files' = GetRemoteFiles(link, page)
  /\ pc' = "returned"
  /\ UNCHANGED <<link, page>>
  /\ UNCHANGED <<crib, text, possible_flags, raised, stdout>>

NextClient == CallGetRemoteFiles

(***************************************************************************)
(* Pages: up to MaxTags tags named link, img or script, each with a href   *)
(* or a src that is one of two relative paths, empty, or a full URL.       *)
(***************************************************************************)
MaxTags == 3
TagNames == {"link", "img", "script"}
AttrNames == {"href", "src"}
AttrValues == {<<"a">>, <<"b">>, <<>>, Http \o <<"a">>}
Tags == [name : TagNames, attr : AttrNames, value : AttrValues]
Links == {Http \o <<"/">>}

InitClient ==
  /\ link \in Links
  /\ page \in SeqsUpTo(Tags, MaxTags)
  /\ all_files = <<>>
  /\ pc = "start"
  /\ crib = <<>> /\ text = <<>> /\ possible_flags = <<>> /\ raised = "none" /\ stdout = <<>>

SpecClient == InitClient /\ [][NextClient]_vars

(***************************************************************************)
(* Inputs for the crib normalisation: cribs over "A" and "{", texts over   *)
(* "A", "{" and "}".                                                       *)
(***************************************************************************)
MaxStripCribLen == 3
MaxStripTextLen == 5
StripCribAlphabet == {65, LBRACE}
StripTextAlphabet == {65, LBRACE, RBRACE}

InitStrip ==
  /\ crib \in SeqsUpTo(StripCribAlphabet, MaxStripCribLen)
  /\ text \in SeqsUpTo(StripTextAlphabet, MaxStripTextLen)
  /\ InitCall

SpecStrip == InitStrip /\ [][NextFlag]_vars

(***************************************************************************)
(* Inputs for the three encodings: the crib is one to three "A"; the text  *)
(* is made of up to MaxPieces pieces, each a flag crib{body} in plaintext, *)
(* in ROT13 or in base64 with a space after it, a run that starts like the *)
(* base64 of the crib and does not decode, or a space.                     *)
(***************************************************************************)
MaxB64CribLen == 3
MaxPieces == 3
B64Cribs == SeqsUpTo({65}, MaxB64CribLen) \ {<<>>}
\* the bodies: empty, and "A?" (whose base64 holds a "/")
Bodies == {<<>>, <<65, 63>>}
Space == <<32>>

Flag(c, body) == c \o <<LBRACE>> \o body \o <<RBRACE>>

B64Text(s) == B64Encode(Utf8Encode(s))

Anchor(c) == SubSeq(B64Text(c), 1, Min(3, Len(B64Text(c))))

\* anchor + "AA " (5 data characters: binascii.Error), and
\* anchor + "B++++ " (bytes that are no UTF-8: UnicodeDecodeError)
BadPadding(c) == Anchor(c) \o <<65, 65>> \o Space
BadUtf8(c) == Anchor(c) \o <<66, 43, 43, 43, 43>> \o Space

Pieces(c) ==
  {Flag(c, b) : b \in Bodies}
  \cup {Rot13(Flag(c, b)) : b \in Bodies}
  \cup {B64Text(Flag(c, b)) \o Space : b \in Bodies}
  \cup {BadPadding(c), BadUtf8(c), Space}

InitB64 ==
  /\ crib \in B64Cribs
  /\ \E ps \in SeqsUpTo(Pieces(crib), MaxPieces) : text = Concat(ps)
  /\ InitCall

SpecB64 == InitB64 /\ [][NextFlag]_vars

(***************************************************************************)
(* Inputs for the tolerance: a crib of two to MaxGapCribLen characters     *)
(* ("A", "B" or "(") with up to MaxGap characters ("A", "x", a line break  *)
(* or "{") inserted between two of them, then {body}.                      *)
(***************************************************************************)
MaxGap == 3
MaxGapCribLen == 3
GapCribs == {c \in SeqsUpTo({65, 66, 40}, MaxGapCribLen) : Len(c) >= 2}
GapAlphabet == {65, 120, NEWLINE, LBRACE}
GapBodies == {<<>>, <<120>>}

\* crib{body} with ins inserted after the first p crib characters
Gapped(c, p, ins, body) ==
  SubSeq(c, 1, p) \o ins \o SubSeq(c, p + 1, Len(c)) \o <<LBRACE>> \o body \o <<RBRACE>>

InitGap ==
  /\ crib \in GapCribs
  /\ \E p \in 1..(Len(crib) - 1), ins \in SeqsUpTo(GapAlphabet, MaxGap), body \in GapBodies :
       text = Gapped(crib, p, ins, body)
  /\ InitCall

SpecGap == InitGap /\ [][NextFlag]_vars

(***************************************************************************)
(* What the claims speak of.                                               *)
(***************************************************************************)
Called == pc # "start"
Returned == pc = "returned"

\* the values of the returned candidates of one kind, in the list's order
RECURSIVE ValuesIn(_, _)
ValuesIn(flags, kind) ==
  IF flags = <<>> THEN <<>>
  ELSE (IF Head(flags).kind = kind THEN <<Head(flags).value>> ELSE <<>>)
       \o ValuesIn(Tail(flags), kind)

ValueSet(kind) ==
  {possible_flags[i].value : i \in {j \in 1..Len(possible_flags) : possible_flags[j].kind = kind}}

\* s has the shape c{body}, the body free of braces and line breaks
HasFlagShape(s, c) ==
  /\ Len(s) >= Len(c) + 2
  /\ SubSeq(s, 1, Len(c) + 1) = c \o <<LBRACE>>
  /\ s[Len(s)] = RBRACE
  /\ \A i \in (Len(c) + 2)..(Len(s) - 1) : s[i] \notin {LBRACE, RBRACE, NEWLINE}

\* the substrings of the text
Substrings == {SubSeq(text, a, b) : a \in 1..Len(text), b \in 1..Len(text)}

\* the positions at which a match of items k.. that starts at pos can end,
\* whatever the order in which an engine tries them
RECURSIVE Ends(_, _, _, _)
Ends(items, txt, k, pos) ==
  IF k > Len(items) THEN {pos}
  ELSE IF items[k].t \in {"open", "close"} THEN Ends(items, txt, k + 1, pos)
  ELSE UNION {Ends(items, txt, k + 1, pos + n) :
                n \in items[k].lo..RunLen(items[k], txt, pos, items[k].hi)}

PlainPattern == Compile(RegexString(Strip(crib, LBRACE)))
Rot13Pattern == Compile(Rot13(RegexString(Strip(crib, LBRACE))))
Base64Pattern == Compile(Base64Source(Strip(crib, LBRACE)))

\* the candidate a kind makes of a matched text
Decoded(kind, m) ==
  IF kind = "plaintext" THEN [err |-> "none", s |-> m]
  ELSE IF kind = "rot13" THEN [err |-> "none", s |-> Rot13(m)]
  ELSE Base64Value([tuple |-> FALSE, s |-> m, parts |-> <<>>])

\* cands are, in order, the candidates of the non-overlapping matches of
\* pat in the text from pos on: each match starts at the leftmost position
\* where one can start, and the next is sought after its end
RECURSIVE Located(_, _, _, _)
Located(pat, kind, cands, pos) ==
  LET starts == {st \in pos..(Len(text) + 1) : Ends(pat.items, text, 1, st) # {}}
  IN IF cands = <<>> THEN starts = {}
     ELSE /\ starts # {}
          /\ LET st == CHOOSE x \in starts : \A y \in starts : x <= y
             IN \E e \in Ends(pat.items, text, 1, st) :
                  /\ Decoded(kind, Slice(text, st, e)) = [err |-> "none", s |-> Head(cands)]
                  /\ Located(pat, kind, Tail(cands), e)

KindRank(kind) == IF kind = "plaintext" THEN 1 ELSE IF kind = "rot13" THEN 2 ELSE 3

\* the "{...}" substrings the pattern \{.*?\} finds: from each "{" to the
\* first "}" after it on the same line, left to right without overlap
RECURSIVE BraceSubstrings(_, _)
BraceSubstrings(txt, pos) ==
  LET closes(i) == {j \in (i + 1)..Len(txt) :
                      /\ txt[j] = RBRACE
                      /\ \A m \in (i + 1)..(j - 1) : txt[m] \notin {RBRACE, NEWLINE}}
      opens == {i \in pos..Len(txt) : txt[i] = LBRACE /\ closes(i) # {}}
  IN IF opens = {} THEN <<>>
     ELSE LET i == CHOOSE x \in opens : \A y \in opens : x <= y
              j == CHOOSE x \in closes(i) : TRUE
          IN <<SubSeq(txt, i, j)>> \o BraceSubstrings(txt, j + 1)

\* the base64-looking matches of the text and what each decodes to
Base64Matches == Findall(Base64Pattern, text)
Base64Decodes == [i \in 1..Len(Base64Matches) |-> Base64Value(Base64Matches[i])]
PatternsCompile == PlainPattern.ok /\ Rot13Pattern.ok /\ Base64Pattern.ok

\* the candidates of the matches that are well formed, in the list's order
RECURSIVE Decodable(_)
Decodable(vals) ==
  IF vals = <<>> THEN <<>>
  ELSE (IF Head(vals).err = "none" THEN <<Candidate("base64", Head(vals).s)>> ELSE <<>>)
       \o Decodable(Tail(vals))

WellFormedCandidates ==
  LET plain == Findall(PlainPattern, text)
      rot == Findall(Rot13Pattern, text)
  IN [i \in 1..Len(plain) |-> Candidate("plaintext", Format(plain[i]))]
     \o [i \in 1..Len(rot) |-> Candidate("rot13", Rot13Value(rot[i]).s)]
     \o Decodable(Base64Decodes)

(***************************************************************************)
(* The claims.                                                             *)
(***************************************************************************)

\* C1: for a non-empty crib, every substring crib{body} of the text (the
\* body free of braces and line breaks) is itself one of the plaintext
\* candidates the call returns.
C1_PlaintextRoundTrip ==
  (Called /\ crib # <<>>) =>
    \A s \in Substrings : HasFlagShape(s, crib) => s \in ValueSet("plaintext")

C3_Base64RoundTrip ==
  Called =>
    \A body \in Bodies, i \in 1..Len(text) :
      (text[i] \in Whitespace
         /\ Contains(text, B64Text(Flag(crib, body)) \o <<text[i]>>))
      => Flag(crib, body) \in ValueSet("base64")

\* C4: a base64-looking match that does not decode is dropped alone: the
\* call returns, and returns every well-formed candidate.
C4_DecodeFailureIsolated ==
  ( /\ Called
    /\ PatternsCompile
    /\ \E i \in 1..Len(Base64Decodes) : Base64Decodes[i].err # "none"
    /\ WellFormedCandidates # <<>> )
  => (raised = "none" /\ possible_flags = WellFormedCandidates)

\* C5: every substring of the text that is the ROT13 of crib{body} (the
\* body free of braces and line breaks) gives the rot13 candidate
\* crib{body}.
C5_Rot13RoundTrip ==
  Called =>
    \A s \in Substrings :
      HasFlagShape(Rot13(s), crib) => Rot13(s) \in ValueSet("rot13")

\* C6: every plaintext and every rot13 candidate returned holds a "{" and,
\* after it, a "}".
C6_BraceShape ==
  Returned =>
    \A i \in 1..Len(possible_flags) :
      possible_flags[i].kind \in {"plaintext", "rot13"} =>
        \E a, b \in 1..Len(possible_flags[i].value) :
          /\ a < b
          /\ possible_flags[i].value[a] = LBRACE
          /\ possible_flags[i].value[b] = RBRACE

\* C7: the list returned is the plaintext candidates, then the rot13
\* candidates, then the base64 candidates; each group holds, left to right
\* and once per occurrence, the non-overlapping matches of its pattern.
C7_OrderedWithoutDeduplication ==
  Returned =>
    /\ \A i, j \in 1..Len(possible_flags) :
         i < j => KindRank(possible_flags[i].kind) <= KindRank(possible_flags[j].kind)
    /\ Located(PlainPattern, "plaintext", ValuesIn(possible_flags, "plaintext"), 1)
    /\ Located(Rot13Pattern, "rot13", ValuesIn(possible_flags, "rot13"), 1)
    /\ Located(Base64Pattern, "base64", ValuesIn(possible_flags, "base64"), 1)

\* C8: with a crib that is empty or all "{", the call returns, and its
\* plaintext candidates are the "{...}" substrings that \{.*?\} finds.
C8_EmptyCribReturns ==
  (Called /\ \A i \in 1..Len(crib) : crib[i] = LBRACE) =>
    /\ raised = "none"
    /\ ValuesIn(possible_flags, "plaintext") = BraceSubstrings(text, 1)

\* the decomposition of the text that C2 speaks of: the first p crib
\* characters, k inserted ones, the rest of the crib, then {body}
IsGapped(p, k) ==
  /\ Len(text) >= Len(crib) + k + 2
  /\ SubSeq(text, 1, p) = SubSeq(crib, 1, p)
  /\ SubSeq(text, p + k + 1, Len(crib) + k + 1) = SubSeq(crib, p + 1, Len(crib)) \o <<LBRACE>>
  /\ text[Len(text)] = RBRACE

Inserted(p, k) == SubSeq(text, p + 1, p + k)
BodyOf(k) == SubSeq(text, Len(crib) + k + 2, Len(text) - 1)
AllAlnum(s) == \A i \in 1..Len(s) : IsAlnum(s[i])

RECURSIVE Count(_, _)
Count(s, x) ==
  IF s = <<>> THEN 0 ELSE (IF Head(s) = x THEN 1 ELSE 0) + Count(Tail(s), x)

\* C9: the list returned holds no URL twice.
C9_NoUrlTwice ==
  Returned => \A i, j \in 1..Len(all_files) : i # j => all_files[i] # all_files[j]

\* the tag kinds and the attribute each is read for
Kinds == {<<"link", "href">>, <<"img", "src">>, <<"script", "src">>}

\* a tag of kind kd refers to the URL u by a path that is no full URL
RefersTo(kd, u) ==
  \E i \in 1..Len(page) :
    /\ page[i].name = kd[1]
    /\ page[i].attr = kd[2]
    /\ page[i].value # <<>>
    /\ ~Contains(page[i].value, Http)
    /\ link \o page[i].value = u

\* C9, amended: a URL is listed once for every kind of tag (link href, img
\* src, script src) that refers to it, however often tags of that kind do:
\* at most once per kind, and no more than three times in all.
C9_OncePerKind ==
  Returned =>
    \A u \in {link \o v : v \in AttrValues} \cup {all_files[i] : i \in 1..Len(all_files)} :
      Count(all_files, u) = Cardinality({kd \in Kinds : RefersTo(kd, u)})

\* C9's case: a path referred to twice by tags of one kind and once by a
\* tag of another kind, listed twice
C9_Witness ==
  /\ Returned
  /\ \E i, j, k \in 1..Len(page) :
       /\ i < j
       /\ page[i] = page[j] /\ page[i].name = "link" /\ page[i].attr = "href"
       /\ page[k].name = "img" /\ page[k].attr = "src" /\ page[k].value = page[i].value
       /\ Count(all_files, link \o page[i].value) = 2

\* s is among the characters of t, in order
RECURSIVE IsScattered(_, _)
IsScattered(s, t) ==
  IF s = <<>> THEN TRUE
  ELSE IF t = <<>> THEN FALSE
  ELSE IF Head(s) = Head(t) THEN IsScattered(Tail(s), Tail(t))
  ELSE IsScattered(s, Tail(t))

\* C10: for a crib "{"^a c "{"^b, c neither starting nor ending with "{",
\* the call does what it does for c; a "{" inside c stays a character of
\* the pattern, so every plaintext candidate holds the characters of c,
\* then a "{", in this order.
C10_BracesAtBothEndsDropped ==
  Called =>
    \A a, b \in 0..Len(crib) :
      ( /\ a + b <= Len(crib)
        /\ \A i \in 1..a : crib[i] = LBRACE
        /\ \A i \in (Len(crib) - b + 1)..Len(crib) : crib[i] = LBRACE
        /\ LET c == SubSeq(crib, a + 1, Len(crib) - b)
           IN c = <<>> \/ (c[1] # LBRACE /\ c[Len(c)] # LBRACE) )
      => LET c == SubSeq(crib, a + 1, Len(crib) - b)
         IN /\ [raised |-> raised, flags |-> possible_flags] = ParseForFlag(c, text)
            /\ \A v \in ValueSet("plaintext") : IsScattered(c \o <<LBRACE>>, v)

\* C10's case: a crib with a brace at each end finds a flag
C10_Witness ==
  /\ Returned
  /\ Len(crib) >= 3 /\ crib[1] = LBRACE /\ crib[Len(crib)] = LBRACE
  /\ crib[2] # LBRACE
  /\ possible_flags # <<>>

====
